---- MODULE Spec2Model ----
(***************************************************************************)
(* Accent & Language Detector: a model of                                  *)
(*   - analyzeAudio (src/services/geminiService.ts): the normalization of  *)
(*     the provider's text reply (trim, de-fence, JSON.parse, validation,  *)
(*     clamping, the catch block), over texts that are sequences of        *)
(*     characters;                                                         *)
(*   - the App component (src/components/ResultDisplay.tsx, second half):  *)
(*     the recording life cycle with its asynchronous callbacks.           *)
(* A text is a sequence of one-character strings.  The backtick cannot be  *)
(* written in a TLA+ string, so the character is named BT.                 *)
(***************************************************************************)
EXTENDS Integers, Sequences, FiniteSets, TLC

(***************************************************************************)
(* Bounds of the model.                                                    *)
(***************************************************************************)
\* how far outside [0,100] the enumerated confidences go
ConfOver == 50
\* the longest truncation (characters cut from the end of a body)
MaxCut == 2
\* the length of the language tag written after an opening fence
MaxTagLen == 4
\* the number of start clicks (each creates at most one stream and recorder)
MaxStarts == 2
\* the largest size, in bytes, of one recorded chunk
MaxChunkBytes == 1

(***************************************************************************)
(* Characters.                                                             *)
(***************************************************************************)
BT == "BACKTICK"
NL == "\n"
SP == " "
TAB == "\t"
CR == "\r"
QT == "\""

Digits == <<"0", "1", "2", "3", "4", "5", "6", "7", "8", "9">>

DigitChars == {Digits[i] : i \in 1..10}

Letters ==
    {"a", "b", "c", "d", "e", "f", "g", "h", "i", "j", "k", "l", "m",
     "n", "o", "p", "q", "r", "s", "t", "u", "v", "w", "x", "y", "z",
     "A", "B", "C", "D", "E", "F", "G", "H", "I", "J", "K", "L", "M",
     "N", "O", "P", "Q", "R", "S", "T", "U", "V", "W", "X", "Y", "Z"}

\* the regular expression class \w
WordChars == Letters \cup DigitChars \cup {"_"}

\* the regular expression class \s, which is also what String.trim removes
SpaceChars == {SP, NL, TAB, CR}

\* the white space JSON.parse skips between tokens
JsonWs == {SP, NL, TAB, CR}

(***************************************************************************)
(* Runs of a character class.                                              *)
(***************************************************************************)
\* the number of consecutive characters of cls in s from position i on
RunLen(s, i, cls) ==
    CHOOSE k \in 0..(Len(s) + 1 - i) :
        /\ \A j \in i..(i + k - 1) : s[j] \in cls
        /\ (i + k > Len(s) \/ s[i + k] \notin cls)

\* the number of consecutive characters of cls in s ending at position e
RunLenBack(s, e, cls) ==
    CHOOSE k \in 0..e :
        /\ \A j \in (e - k + 1)..e : s[j] \in cls
        /\ (e - k < 1 \/ s[e - k] \notin cls)

\* Trim that leaves the white space at the end
TrimStartOnly(s) ==
    LET a == RunLen(s, 1, SpaceChars)
    IN  IF a = Len(s) THEN <<>> ELSE SubSeq(s, a + 1, Len(s))

\* String.prototype.trim
Trim(s) ==
    LET a == RunLen(s, 1, SpaceChars)
        b == RunLenBack(s, Len(s), SpaceChars)
    IN  IF a = Len(s) THEN <<>> ELSE SubSeq(s, a + 1, Len(s) - b)

(***************************************************************************)
(* fenceRegex (line 49): three backticks, an optional group 1 of word     *)
(* characters (greedy), white space (greedy), an optional line feed, a     *)
(* lazy group 2 of any characters (flag s: line breaks too), an optional   *)
(* line feed, white space, three backticks, the end.  A match covers the   *)
(* string and is fixed by four numbers: w, the length of group 1; sp, the  *)
(* length of the first \s*; nl, whether the first \n? took a character; b, *)
(* the length of group 2.  The backtracking matcher prefers a longer w,    *)
(* then a longer sp, then nl = 1 (all three greedy), then a shorter b      *)
(* (lazy), and returns the first candidate that lets the rest match.       *)
(***************************************************************************)
\* the positions from which  \n? \s* BT BT BT $  matches
FenceTailStarts(s) ==
    IF Len(s) >= 3 /\ \A j \in (Len(s) - 2)..Len(s) : s[j] = BT
    THEN (Len(s) - 2 - RunLenBack(s, Len(s) - 3, SpaceChars))..(Len(s) - 2)
    ELSE {}

FenceCands(s) ==
    IF Len(s) < 3 \/ \E j \in 1..3 : s[j] # BT
    THEN {}
    ELSE LET tails == FenceTailStarts(s)
         IN  UNION { UNION { UNION {
                 { <<w, sp, nl, b>> :
                     b \in { x \in 0..(Len(s) - (3 + w + sp + nl)) :
                               (3 + w + sp + nl + x + 1) \in tails } }
                 : nl \in { y \in {0, 1} :
                              y = 0 \/ ( /\ 3 + w + sp + 1 <= Len(s)
                                         /\ s[3 + w + sp + 1] = NL ) } }
                 : sp \in 0..RunLen(s, 3 + w + 1, SpaceChars) }
                 : w \in 0..RunLen(s, 4, WordChars) }

\* FenceBefore with group 1 lazy instead of greedy
FenceBeforeLazyTag(c, d) ==
    \/ c[1] < d[1]
    \/ c[1] = d[1] /\ c[2] > d[2]
    \/ c[1] = d[1] /\ c[2] = d[2] /\ c[3] > d[3]
    \/ c[1] = d[1] /\ c[2] = d[2] /\ c[3] = d[3] /\ c[4] < d[4]

\* c is tried before d by the backtracking matcher
FenceBefore(c, d) ==
    \/ c[1] > d[1]
    \/ c[1] = d[1] /\ c[2] > d[2]
    \/ c[1] = d[1] /\ c[2] = d[2] /\ c[3] > d[3]
    \/ c[1] = d[1] /\ c[2] = d[2] /\ c[3] = d[3] /\ c[4] < d[4]

\* jsonStr.match(fenceRegex): whether it matched, group 1 and group 2
FenceMatch(s) ==
    LET cands == FenceCands(s)
    IN  IF cands = {}
        THEN [matched |-> FALSE, tag |-> <<>>, body |-> <<>>]
        ELSE LET c == CHOOSE x \in cands :
                          \A d \in cands : d = x \/ FenceBefore(x, d)
                 from == 3 + c[1] + c[2] + c[3] + 1
             IN  [matched |-> TRUE,
                  tag |-> SubSeq(s, 4, 3 + c[1]),
                  body |-> SubSeq(s, from, from + c[4] - 1)]

\* lines 48-53: the string handed to JSON.parse
DeFence(text) ==
    LET jsonStr == Trim(text)
        match == FenceMatch(jsonStr)
    IN  IF match.matched /\ match.body # <<>>
        THEN Trim(match.body)
        ELSE jsonStr

(***************************************************************************)
(* JavaScript values as JSON.parse builds them: a record [t, v] with t the *)
(* type; an object is a sequence of members [k, v] with distinct keys, in  *)
(* insertion order.                                                        *)
(***************************************************************************)
JNull == [t |-> "null", v |-> 0]
JUndefined == [t |-> "undefined", v |-> 0]
JBool(b) == [t |-> "boolean", v |-> b]
JNum(n) == [t |-> "number", v |-> n]
JStr(s) == [t |-> "string", v |-> s]
JArr(a) == [t |-> "array", v |-> a]
JObj(m) == [t |-> "object", v |-> m]

\* o[k] = x on an object: a key already there keeps its place
SetMember(members, k, x) ==
    IF \E i \in 1..Len(members) : members[i].k = k
    THEN [i \in 1..Len(members) |->
             IF members[i].k = k THEN [k |-> k, v |-> x] ELSE members[i]]
    ELSE Append(members, [k |-> k, v |-> x])

DigitVal(c) == (CHOOSE d \in 1..10 : Digits[d] = c) - 1

\* the value of a run of digits
RECURSIVE DigitsVal(_)
DigitsVal(ds) ==
    IF ds = <<>> THEN 0
    ELSE 10 * DigitsVal(SubSeq(ds, 1, Len(ds) - 1)) + DigitVal(ds[Len(ds)])

ParseFail == [ok |-> FALSE, val |-> JNull, next |-> 0]

SkipWs(s, i) == i + RunLen(s, i, JsonWs)

\* s has the word w at position i
HasWord(s, i, w) ==
    /\ i + Len(w) - 1 <= Len(s)
    /\ SubSeq(s, i, i + Len(w) - 1) = w

\* a string literal at i: the characters up to the next quote, none of them a
\* control character (the texts of this model hold no backslash)
ParseString(s, i) ==
    IF i > Len(s) \/ s[i] # QT THEN ParseFail
    ELSE LET n == RunLen(s, i + 1, (Letters \cup DigitChars
                        \cup {"_", SP, BT, "{", "}", "[", "]", ":", ",", "-"}))
         IN  IF i + 1 + n <= Len(s) /\ s[i + 1 + n] = QT
             THEN [ok |-> TRUE, val |-> JStr(SubSeq(s, i + 1, i + n)),
                   next |-> i + n + 2]
             ELSE ParseFail

\* a number at i: -? (0 | [1-9][0-9]*); the texts of this model hold neither
\* a fraction nor an exponent
ParseNumber(s, i) ==
    LET neg == i <= Len(s) /\ s[i] = "-"
        from == IF neg THEN i + 1 ELSE i
        n == RunLen(s, from, DigitChars)
        ds == SubSeq(s, from, from + n - 1)
    IN  IF n = 0 \/ (n > 1 /\ ds[1] = "0") THEN ParseFail
        ELSE [ok |-> TRUE,
              val |-> JNum(IF neg THEN 0 - DigitsVal(ds) ELSE DigitsVal(ds)),
              next |-> from + n]

RECURSIVE ParseValue(_, _), ParseMembers(_, _, _), ParseElements(_, _, _)

\* the members of an object, the first of them at i; acc holds those read
ParseMembers(s, i, acc) ==
    LET key == ParseString(s, i)
        colon == SkipWs(s, key.next)
        val == ParseValue(s, SkipWs(s, colon + 1))
        after == SkipWs(s, val.next)
        got == SetMember(acc, key.val.v, val.val)
    IN  IF ~key.ok \/ colon > Len(s) \/ s[colon] # ":" THEN ParseFail
        ELSE IF ~val.ok \/ after > Len(s) THEN ParseFail
        ELSE IF s[after] = "}"
             THEN [ok |-> TRUE, val |-> JObj(got), next |-> after + 1]
        ELSE IF s[after] = ","
             THEN ParseMembers(s, SkipWs(s, after + 1), got)
        ELSE ParseFail

\* the elements of an array, the first of them at i
ParseElements(s, i, acc) ==
    LET val == ParseValue(s, i)
        after == SkipWs(s, val.next)
        got == Append(acc, val.val)
    IN  IF ~val.ok \/ after > Len(s) THEN ParseFail
        ELSE IF s[after] = "]"
             THEN [ok |-> TRUE, val |-> JArr(got), next |-> after + 1]
        ELSE IF s[after] = ","
             THEN ParseElements(s, SkipWs(s, after + 1), got)
        ELSE ParseFail

ParseValue(s, i) ==
    IF i > Len(s) THEN ParseFail
    ELSE IF s[i] = "{"
         THEN LET j == SkipWs(s, i + 1)
              IN  IF j <= Len(s) /\ s[j] = "}"
                  THEN [ok |-> TRUE, val |-> JObj(<<>>), next |-> j + 1]
                  ELSE ParseMembers(s, j, <<>>)
    ELSE IF s[i] = "["
         THEN LET j == SkipWs(s, i + 1)
              IN  IF j <= Len(s) /\ s[j] = "]"
                  THEN [ok |-> TRUE, val |-> JArr(<<>>), next |-> j + 1]
                  ELSE ParseElements(s, j, <<>>)
    ELSE IF s[i] = QT THEN ParseString(s, i)
    ELSE IF s[i] = "-" \/ s[i] \in DigitChars THEN ParseNumber(s, i)
    ELSE IF HasWord(s, i, <<"n", "u", "l", "l">>)
         THEN [ok |-> TRUE, val |-> JNull, next |-> i + 4]
    ELSE IF HasWord(s, i, <<"t", "r", "u", "e">>)
         THEN [ok |-> TRUE, val |-> JBool(TRUE), next |-> i + 4]
    ELSE IF HasWord(s, i, <<"f", "a", "l", "s", "e">>)
         THEN [ok |-> TRUE, val |-> JBool(FALSE), next |-> i + 5]
    ELSE ParseFail

\* JSON.parse: one value, white space around it, and nothing else; ok = FALSE
\* stands for the SyntaxError it throws
JSONparse(s) ==
    LET r == ParseValue(s, SkipWs(s, 1))
    IN  IF r.ok /\ SkipWs(s, r.next) = Len(s) + 1
        THEN [ok |-> TRUE, val |-> r.val]
        ELSE [ok |-> FALSE, val |-> JNull]

(***************************************************************************)
(* Property access, truthiness and typeof, as lines 58-67 use them.        *)
(***************************************************************************)
K_language == <<"l", "a", "n", "g", "u", "a", "g", "e">>
K_accent == <<"a", "c", "c", "e", "n", "t">>
K_name == <<"n", "a", "m", "e">>
K_confidence == <<"c", "o", "n", "f", "i", "d", "e", "n", "c", "e">>
K_length == <<"l", "e", "n", "g", "t", "h">>

\* x.k throws a TypeError when x is null or undefined
PropThrows(x) == x.t \in {"null", "undefined"}

\* x.k for the other values: an own member of an object, the length of a
\* string or an array, and undefined otherwise
Prop(x, k) ==
    IF x.t = "object"
    THEN IF \E i \in 1..Len(x.v) : x.v[i].k = k
         THEN x.v[CHOOSE i \in 1..Len(x.v) : x.v[i].k = k].v
         ELSE JUndefined
    ELSE IF x.t \in {"string", "array"} /\ k = K_length
         THEN JNum(Len(x.v))
    ELSE JUndefined

\* the values that !x turns into false
Truthy(x) ==
    CASE x.t \in {"null", "undefined"} -> FALSE
      [] x.t = "boolean" -> x.v
      [] x.t = "number" -> x.v # 0
      [] x.t = "string" -> x.v # <<>>
      [] OTHER -> TRUE

TypeOf(x) == IF x.t \in {"null", "array"} THEN "object" ELSE x.t

\* lines 59-60, one operand of the condition for each of the two fields
FieldInvalid(parsedData, k) ==
    \/ ~Truthy(Prop(parsedData, k))
    \/ TypeOf(Prop(Prop(parsedData, k), K_name)) # "string"
    \/ TypeOf(Prop(Prop(parsedData, k), K_confidence)) # "number"

\* lines 58-61: the condition of the validation
InvalidStructure(parsedData) ==
    FieldInvalid(parsedData, K_language) \/ FieldInvalid(parsedData, K_accent)

Min(a, b) == IF a < b THEN a ELSE b

Max(a, b) == IF a > b THEN a ELSE b

\* Clamp without its lower bound
ClampUpperOnly(c) == Min(100, c)

\* lines 66-67: Math.max(0, Math.min(100, c))
Clamp(c) == Max(0, Min(100, c))

\* parsedData.k.confidence = Clamp(parsedData.k.confidence)
ClampField(parsedData, k) ==
    LET field == Prop(parsedData, k)
        c == Prop(field, K_confidence).v
    IN  JObj(SetMember(parsedData.v, k,
                 JObj(SetMember(field.v, K_confidence, JNum(Clamp(c))))))

(***************************************************************************)
(* Exceptions and the outcome of analyzeAudio.                             *)
(***************************************************************************)
\* the message of the SyntaxError of JSON.parse (the engine words it)
SyntaxErrorMessage == "Unexpected token in JSON"
\* the message of the TypeError of a property read on null
TypeErrorMessage == "Cannot read properties of null"
InvalidStructureMessage == "Invalid JSON structure received from API."
UnknownErrorMessage ==
    "An unknown error occurred while communicating with the AI model."

\* a thrown value: an Error (instanceof Error) with its message, or another value
Thrown(isError, message) == [isError |-> isError, message |-> message]

Returned(result) == [kind |-> "return", result |-> result, message |-> ""]

Threw(message) == [kind |-> "throw", result |-> JNull, message |-> message]

\* Catch with the message of every value replaced by the unknown-error text
CatchOpaque(e) == Threw(UnknownErrorMessage)

\* lines 71-77: the catch block, which throws a new Error
Catch(e) ==
    IF e.isError
    THEN Threw("API call failed: " \o e.message)
    ELSE Threw(UnknownErrorMessage)

\* lines 55-69: what follows the de-fencing
ParseAndValidate(jsonStr) ==
    LET parsed == JSONparse(jsonStr)
        parsedData == parsed.val
    IN  IF ~parsed.ok THEN Catch(Thrown(TRUE, SyntaxErrorMessage))
        ELSE IF PropThrows(parsedData) THEN Catch(Thrown(TRUE, TypeErrorMessage))
        ELSE IF InvalidStructure(parsedData)
             THEN Catch(Thrown(TRUE, InvalidStructureMessage))
        ELSE Returned(ClampField(ClampField(parsedData, K_language), K_accent))

\* lines 48-77: analyzeAudio from the text of the provider's response on
Normalize(text) == ParseAndValidate(DeFence(text))

(***************************************************************************)
(* The provider's replies that the model enumerates.  A reply is described *)
(* by the payload it carries (the shape of the top-level value and of the  *)
(* two fields, the two confidences), its layout (compact, or one member a  *)
(* line as in PROMPT), the number of characters cut from its end, and how  *)
(* it is wrapped (bare, or between fences of 3 or 4 backticks, with or     *)
(* without a tag, with the body on the fence lines or on lines of its own).*)
(***************************************************************************)
RECURSIVE RenderNat(_)
RenderNat(n) ==
    IF n < 10 THEN <<Digits[n + 1]>>
    ELSE RenderNat(n \div 10) \o <<Digits[(n % 10) + 1]>>

RenderInt(n) == IF n < 0 THEN <<"-">> \o RenderNat(0 - n) ELSE RenderNat(n)

RenderString(s) == <<QT>> \o s \o <<QT>>

RECURSIVE Spaces(_)
Spaces(n) == IF n = 0 THEN <<>> ELSE <<SP>> \o Spaces(n - 1)

Indent(layout, depth) ==
    IF layout = "compact" THEN <<>> ELSE <<NL>> \o Spaces(2 * depth)

Colon(layout) == IF layout = "compact" THEN <<":">> ELSE <<":", SP>>

RECURSIVE JoinMembers(_, _, _)
JoinMembers(members, layout, depth) ==
    LET m == members[1]
        one == RenderString(m.k) \o Colon(layout) \o m.text
    IN  IF Len(members) = 1 THEN one
        ELSE one \o <<",">> \o Indent(layout, depth)
                 \o JoinMembers(Tail(members), layout, depth)

RenderObject(members, layout, depth) ==
    IF members = <<>> THEN <<"{", "}">>
    ELSE <<"{">> \o Indent(layout, depth + 1)
                 \o JoinMembers(members, layout, depth + 1)
                 \o Indent(layout, depth) \o <<"}">>

N_English == <<"E", "n", "g", "l", "i", "s", "h">>
N_American == <<"A", "m", "e", "r", "i", "c", "a", "n">>

FieldShapes ==
    {"ok", "missing", "null", "string", "number", "zero", "array",
     "nameNumber", "nameMissing", "nameEmpty", "confString", "confMissing",
     "confNull"}

TopShapes == {"object", "null", "number", "string", "array", "false"}

\* the members of a field of shape sh
FieldMembers(sh, name, conf) ==
    LET n == [k |-> K_name, text |-> RenderString(name)]
        c == [k |-> K_confidence, text |-> RenderInt(conf)]
    IN  CASE sh = "ok" -> <<n, c>>
          [] sh = "nameNumber" -> <<[k |-> K_name, text |-> <<"7">>], c>>
          [] sh = "nameMissing" -> <<c>>
          [] sh = "nameEmpty" ->
                 <<[k |-> K_name, text |-> RenderString(<<>>)], c>>
          [] sh = "confString" ->
                 <<n, [k |-> K_confidence, text |-> RenderString(RenderInt(conf))]>>
          [] sh = "confMissing" -> <<n>>
          [] sh = "confNull" ->
                 <<n, [k |-> K_confidence, text |-> <<"n", "u", "l", "l">>]>>

\* the text of a field of shape sh (a shape other than "missing")
FieldText(sh, name, conf, layout) ==
    CASE sh = "null" -> <<"n", "u", "l", "l">>
      [] sh = "string" -> RenderString(name)
      [] sh = "number" -> <<"7">>
      [] sh = "zero" -> <<"0">>
      [] sh = "array" -> <<"[", "]">>
      [] OTHER -> RenderObject(FieldMembers(sh, name, conf), layout, 1)

\* the text of a payload
RenderPayload(p, layout) ==
    CASE p.top = "null" -> <<"n", "u", "l", "l">>
      [] p.top = "number" -> <<"4", "2">>
      [] p.top = "string" -> RenderString(N_English)
      [] p.top = "array" -> <<"[", "]">>
      [] p.top = "false" -> <<"f", "a", "l", "s", "e">>
      [] OTHER ->
           LET l == IF p.lang = "missing" THEN <<>>
                    ELSE <<[k |-> K_language,
                            text |-> FieldText(p.lang, N_English, p.lc, layout)]>>
               a == IF p.acc = "missing" THEN <<>>
                    ELSE <<[k |-> K_accent,
                            text |-> FieldText(p.acc, N_American, p.ac, layout)]>>
           IN  RenderObject(l \o a, layout, 0)

\* the body of a reply: the payload's text less its last cut characters
RenderBody(in) ==
    LET t == RenderPayload(in.payload, in.layout)
    IN  SubSeq(t, 1, Max(0, Len(t) - in.cut))

TagWord == <<"j", "s", "o", "n", "5", "_">>

TagOf(w) == IF w.tagged THEN SubSeq(TagWord, 1, Min(MaxTagLen, Len(TagWord))) ELSE <<>>

RECURSIVE Ticks(_)
Ticks(n) == IF n = 0 THEN <<>> ELSE <<BT>> \o Ticks(n - 1)

\* a body in its wrapping
Wrap(w, body) ==
    IF w.ticks = 0 THEN w.open \o body \o w.close
    ELSE Ticks(w.ticks) \o TagOf(w) \o w.open \o body \o w.close
             \o (IF w.closed THEN Ticks(w.ticks) ELSE <<>>)

\* the text of a reply
RenderInput(in) == Wrap(in.wrap, RenderBody(in))

Bare == [ticks |-> 0, tagged |-> FALSE, open |-> <<>>, close |-> <<>>, closed |-> FALSE]

Wraps ==
    {Bare, [Bare EXCEPT !.open = <<SP, NL>>, !.close = <<NL>>]}
    \cup [ticks : {3}, tagged : BOOLEAN, closed : {TRUE},
          open : {<<>>}, close : {<<>>}]
    \cup [ticks : {3}, tagged : BOOLEAN, closed : {TRUE},
          open : {<<NL>>}, close : {<<NL>>}]
    \cup [ticks : {3}, tagged : BOOLEAN, closed : {TRUE},
          open : {<<SP, NL>>}, close : {<<NL, SP>>}]
    \cup [ticks : {4}, tagged : {FALSE}, closed : {TRUE},
          open : {<<NL>>}, close : {<<NL>>}]
    \cup [ticks : {3}, tagged : {TRUE}, closed : {FALSE},
          open : {<<NL>>}, close : {<<NL>>}]

ConfValues == {0 - ConfOver, -1, 0, 50, 100, 101, 100 + ConfOver}

Payloads ==
    [top : {"object"}, lang : {"ok"}, acc : {"ok"}, lc : ConfValues, ac : ConfValues]
    \cup [top : {"object"}, lang : FieldShapes, acc : FieldShapes, lc : {95}, ac : {110}]
    \cup [top : TopShapes, lang : {"ok"}, acc : {"ok"}, lc : {95}, ac : {110}]

Inputs ==
    [payload : Payloads, layout : {"compact", "pretty"}, cut : 0..MaxCut, wrap : Wraps]

\* the scenario of the specification: the payload of PROMPT's example with
\* an accent confidence of 110, compact, between fences tagged json
ExampleInput ==
    [payload |-> [top |-> "object", lang |-> "ok", acc |-> "ok", lc |-> 95, ac |-> 110],
     layout |-> "compact", cut |-> 0,
     wrap |-> [ticks |-> 3, tagged |-> TRUE, closed |-> TRUE,
               open |-> <<NL>>, close |-> <<NL>>]]

(***************************************************************************)
(* What the provider's call (line 38) can settle with: a response whose    *)
(* text is a string, a response without text, or a rejection.              *)
(***************************************************************************)
\* the values generateContent rejects with: an Error of the SDK or of the
\* network, the SyntaxError of the SDK's own decoding of an HTTP body that
\* is not JSON, and a value that is no Error
ProviderRejections ==
    {Thrown(TRUE, "got status: 503 Service Unavailable"),
     Thrown(TRUE, "Failed to fetch"),
     Thrown(TRUE, SyntaxErrorMessage),
     Thrown(FALSE, "aborted")}

\* lines 38-48 and 71-77 for a rejection: the catch block gets the value
RejectedOutcome(e) == Catch(e)

\* line 48 when response.text is undefined: the read of trim throws a TypeError
NoTextOutcome == Catch(Thrown(TRUE, "Cannot read properties of undefined"))

(***************************************************************************)
(* State.  The first group is one call of analyzeAudio, step by step; the  *)
(* second group is the App component and its environment.                  *)
(***************************************************************************)
VARIABLES
    nIn,            \* the reply the provider is about to give (its description)
    nPc,            \* where the call of analyzeAudio is
    nText,          \* response.text
    nJsonStr,       \* jsonStr after lines 48-53
    nParsed,        \* the result of JSON.parse: [ok, val]
    nOut,           \* what analyzeAudio returned or threw
    recordingState, \* useState: idle, recording, processing, result, error
    analysisResult, \* useState: the AnalysisResult, or JNull
    error,          \* useState: the message, or NoMessage
    analyserData,   \* useState: whether the visualizer holds samples
    mediaRecorderRef,    \* useRef: the recorder (0 is null)
    audioChunksRef,      \* useRef: the chunks pushed by dataavailable
    audioContextRef,     \* useRef (0 is null)
    analyserRef,         \* useRef (0 is null)
    sourceRef,           \* useRef (0 is null)
    streamRef,           \* useRef (0 is null)
    animationFrameIdRef, \* useRef: the frame last requested, or NoFrame
    starts,         \* how many times startRecording was called
    gum,            \* the getUserMedia promise of each call
    recorder,       \* each MediaRecorder's state
    trackLive,      \* whether each stream's tracks are live
    context,        \* each AudioContext's state
    frames,         \* the draw closures with an animation frame scheduled
    reader,         \* each FileReader's state
    blob,           \* the Blob each FileReader reads
    request         \* each call of analyzeAudio: its state and its payload

nvars == <<nIn, nPc, nText, nJsonStr, nParsed, nOut>>

uvars ==
    <<recordingState, analysisResult, error, analyserData, mediaRecorderRef,
      audioChunksRef, audioContextRef, analyserRef, sourceRef, streamRef,
      animationFrameIdRef, starts, gum, recorder, trackLive, context, frames,
      reader, blob, request>>

vars == <<nvars, uvars>>

Ids == 1..MaxStarts

NoMessage == [set |-> FALSE, text |-> ""]

Message(t) == [set |-> TRUE, text |-> t]

NoFrame == [loop |-> 0, live |-> FALSE]

NoRequest == [state |-> "none", base64Len |-> 0, chunks |-> <<>>]

\* lines 73-84: the state of the component when it is mounted
UInit ==
    /\ recordingState = "idle"
    /\ analysisResult = JNull
    /\ error = NoMessage
    /\ analyserData = FALSE
    /\ mediaRecorderRef = 0
    /\ audioChunksRef = <<>>
    /\ audioContextRef = 0
    /\ analyserRef = 0
    /\ sourceRef = 0
    /\ streamRef = 0
    /\ animationFrameIdRef = NoFrame
    /\ starts = 0
    /\ gum = [k \in Ids |-> "none"]
    /\ recorder = [k \in Ids |-> "none"]
    /\ trackLive = [k \in Ids |-> FALSE]
    /\ context = [k \in Ids |-> "none"]
    /\ frames = {}
    /\ reader = [k \in Ids |-> "none"]
    /\ blob = [k \in Ids |-> <<>>]
    /\ request = [k \in Ids |-> NoRequest]

NoParse == [done |-> FALSE, ok |-> FALSE, val |-> JNull]

NoOutcome == [kind |-> "none", result |-> JNull, message |-> ""]

\* no call of analyzeAudio is being followed step by step
NIdle ==
    /\ nIn = ExampleInput
    /\ nPc = "idle"
    /\ nText = <<>>
    /\ nJsonStr = <<>>
    /\ nParsed = NoParse
    /\ nOut = NoOutcome

(***************************************************************************)
(* analyzeAudio, one call, step by step (specification SpecNorm).          *)
(***************************************************************************)
\* lines 29-46: the request is sent and the call waits for the provider
InitNorm ==
    /\ nIn \in Inputs
    /\ nPc = "request"
    /\ nText = <<>>
    /\ nJsonStr = <<>>
    /\ nParsed = NoParse
    /\ nOut = NoOutcome
    /\ UInit

\* line 38: the provider answers with a text
NRespond ==
    /\ nPc = "request"
    /\ nText' = RenderInput(nIn)
    /\ nPc' = "responded"
    /\ UNCHANGED <<nIn, nJsonStr, nParsed, nOut, uvars>>

\* line 38: the provider's call rejects; lines 71-77
NReject ==
    /\ nPc = "request"
    /\ nIn = ExampleInput
    /\ \E e \in ProviderRejections : nOut' = RejectedOutcome(e)
    /\ nPc' = "thrown"
    /\ UNCHANGED <<nIn, nText, nJsonStr, nParsed, uvars>>

\* line 48: the response has no text; lines 71-77
NNoText ==
    /\ nPc = "request"
    /\ nIn = ExampleInput
    /\ nOut' = NoTextOutcome
    /\ nPc' = "thrown"
    /\ UNCHANGED <<nIn, nText, nJsonStr, nParsed, uvars>>

\* lines 48-53
NDeFence ==
    /\ nPc = "responded"
    /\ nJsonStr' = DeFence(nText)
    /\ nPc' = "defenced"
    /\ UNCHANGED <<nIn, nText, nParsed, nOut, uvars>>

\* line 55, and lines 71-77 when JSON.parse throws
NParse ==
    /\ nPc = "defenced"
    /\ nParsed' = [done |-> TRUE, ok |-> JSONparse(nJsonStr).ok,
                    val |-> JSONparse(nJsonStr).val]
    /\ IF nParsed'.ok
       THEN nPc' = "parsed" /\ nOut' = nOut
       ELSE nPc' = "thrown" /\ nOut' = ParseAndValidate(nJsonStr)
    /\ UNCHANGED <<nIn, nText, nJsonStr, uvars>>

\* lines 57-69, and lines 71-77 when the validation throws
NValidate ==
    /\ nPc = "parsed"
    /\ nOut' = ParseAndValidate(nJsonStr)
    /\ nPc' = IF nOut'.kind = "return" THEN "returned" ELSE "thrown"
    /\ UNCHANGED <<nIn, nText, nJsonStr, nParsed, uvars>>

NextNorm == NRespond \/ NReject \/ NNoText \/ NDeFence \/ NParse \/ NValidate

SpecNorm == InitNorm /\ [][NextNorm]_vars

(***************************************************************************)
(* The App component.  Every action is one handler or callback, run to     *)
(* completion; an await or an event splits a function into two actions.    *)
(* The k-th call of startRecording owns the objects numbered k: its        *)
(* getUserMedia promise, stream, MediaRecorder, AudioContext and draw      *)
(* closure, and the FileReader and the analyzeAudio call its recorder's    *)
(* stop event leads to.                                                    *)
(***************************************************************************)
MicrophoneDeniedMessage ==
    "Microphone access was denied. Please allow microphone access in your browser settings to use this app."
NoAudioMessage == "No audio was recorded. Please try again."
AnalysisFailedPrefix == "Failed to analyze audio. "
UnknownAnalysisMessage == "An unknown error occurred during analysis."
\* the message of the TypeError of reader.result.split when reader.result is null
ReaderNullMessage == "Cannot read properties of null (reading 'split')"

\* the replies of the provider that the component's model enumerates
UiReplies ==
    {ExampleInput,
     [ExampleInput EXCEPT !.cut = 1, !.wrap = Bare],
     [ExampleInput EXCEPT !.payload.acc = "missing", !.wrap = Bare]}

\* what a call of analyzeAudio can end with
UiOutcomes ==
    {Normalize(RenderInput(in)) : in \in UiReplies}
    \cup {RejectedOutcome(e) : e \in ProviderRejections}

RECURSIVE SumSizes(_)
SumSizes(chunks) ==
    IF chunks = <<>> THEN 0 ELSE chunks[1].size + SumSizes(Tail(chunks))

\* the length of the base64 text of n bytes: what follows the comma of the
\* data URL that readAsDataURL builds (line 109)
Base64Len(n) == 4 * ((n + 2) \div 3)

\* the start button is rendered (lines 237-251)
StartButton == recordingState = "idle"

\* the stop button is rendered (lines 188-202)
StopButton == recordingState = "recording"

\* a Try Again button is rendered (lines 211-236)
ResetButton ==
    \/ recordingState = "error"
    \/ recordingState = "result" /\ analysisResult # JNull

\* lines 122-124: a click on the start button; the call waits for getUserMedia
ClickStart ==
    /\ StartButton
    /\ starts < MaxStarts
    /\ starts' = starts + 1
    /\ gum' = [gum EXCEPT ![starts + 1] = "pending"]
    /\ UNCHANGED <<nvars, recordingState, analysisResult, error, analyserData,
                   mediaRecorderRef, audioChunksRef, audioContextRef,
                   analyserRef, sourceRef, streamRef, animationFrameIdRef,
                   recorder, trackLive, context, frames, reader, blob, request>>

\* lines 125-155: getUserMedia resolved with stream k; the recorder starts,
\* the visualizer is set up and draw runs once
StartResolved(k) ==
    /\ gum[k] = "pending"
    /\ gum' = [gum EXCEPT ![k] = "resolved"]
    /\ trackLive' = [trackLive EXCEPT ![k] = TRUE]
    /\ streamRef' = k
    /\ mediaRecorderRef' = k
    /\ recorder' = [recorder EXCEPT ![k] = "recording"]
    /\ recordingState' = "recording"
    /\ error' = NoMessage
    /\ context' = [context EXCEPT ![k] = "running"]
    /\ audioContextRef' = k
    /\ analyserRef' = k
    /\ sourceRef' = k
    /\ analyserData' = TRUE
    /\ frames' = frames \cup {k}
    /\ animationFrameIdRef' = [loop |-> k, live |-> TRUE]
    /\ UNCHANGED <<nvars, analysisResult, audioChunksRef, starts, reader, blob,
                   request>>

\* lines 125-137 and 157-161: getUserMedia resolved with stream k and the
\* recorder started, then the AudioContext constructor threw
StartVisualizerThrows(k) ==
    /\ gum[k] = "pending"
    /\ gum' = [gum EXCEPT ![k] = "resolved"]
    /\ trackLive' = [trackLive EXCEPT ![k] = TRUE]
    /\ streamRef' = k
    /\ mediaRecorderRef' = k
    /\ recorder' = [recorder EXCEPT ![k] = "recording"]
    /\ error' = Message(MicrophoneDeniedMessage)
    /\ recordingState' = "error"
    /\ UNCHANGED <<nvars, analysisResult, analyserData, audioChunksRef,
                   audioContextRef, analyserRef, sourceRef, animationFrameIdRef,
                   starts, context, frames, reader, blob, request>>

\* lines 124 and 157-161: getUserMedia rejected
StartRejected(k) ==
    /\ gum[k] = "pending"
    /\ gum' = [gum EXCEPT ![k] = "rejected"]
    /\ error' = Message(MicrophoneDeniedMessage)
    /\ recordingState' = "error"
    /\ UNCHANGED <<nvars, analysisResult, analyserData, mediaRecorderRef,
                   audioChunksRef, audioContextRef, analyserRef, sourceRef,
                   streamRef, animationFrameIdRef, starts, recorder, trackLive,
                   context, frames, reader, blob, request>>

\* line 165: the condition of stopRecording
StopGuard ==
    /\ mediaRecorderRef # 0
    /\ recorder[mediaRecorderRef] = "recording"

\* lines 164-184: a click on the stop button
ClickStop ==
    /\ StopButton
    /\ IF StopGuard
       THEN /\ recorder' = [recorder EXCEPT ![mediaRecorderRef] = "stopping"]
            /\ frames' = IF animationFrameIdRef # NoFrame /\ animationFrameIdRef.live
                         THEN frames \ {animationFrameIdRef.loop}
                         ELSE frames
            /\ trackLive' = IF streamRef # 0
                            THEN [trackLive EXCEPT ![streamRef] = FALSE]
                            ELSE trackLive
            /\ context' = IF audioContextRef # 0
                          THEN [context EXCEPT ![audioContextRef] = "closed"]
                          ELSE context
            /\ animationFrameIdRef' = NoFrame
            /\ streamRef' = 0
            /\ sourceRef' = 0
            /\ audioContextRef' = 0
            /\ analyserRef' = 0
            /\ analyserData' = FALSE
       ELSE UNCHANGED <<recorder, frames, trackLive, context,
                        animationFrameIdRef, streamRef, sourceRef,
                        audioContextRef, analyserRef, analyserData>>
    /\ UNCHANGED <<nvars, recordingState, analysisResult, error,
                   mediaRecorderRef, audioChunksRef, starts, gum, reader, blob,
                   request>>

\* lines 128-130: the dataavailable event of recorder k, stopped, with the
\* data recorded (a Blob of size bytes)
DataAvailable(k, size) ==
    /\ recorder[k] = "stopping"
    /\ recorder' = [recorder EXCEPT ![k] = "flushed"]
    /\ audioChunksRef' = Append(audioChunksRef, [rec |-> k, size |-> size])
    /\ UNCHANGED <<nvars, recordingState, analysisResult, error, analyserData,
                   mediaRecorderRef, audioContextRef, analyserRef, sourceRef,
                   streamRef, animationFrameIdRef, starts, gum, trackLive,
                   context, frames, reader, blob, request>>

\* lines 131 and 93-106: the stop event of recorder k runs processAudio, which
\* hands the chunks to a FileReader; the event comes after the dataavailable
\* event, or alone when the recorder delivered no data
StopEvent(k) ==
    /\ recorder[k] \in {"stopping", "flushed"}
    /\ recorder' = [recorder EXCEPT ![k] = "stopped"]
    /\ IF Len(audioChunksRef) = 0
       THEN /\ error' = Message(NoAudioMessage)
            /\ recordingState' = "error"
            /\ UNCHANGED <<audioChunksRef, reader, blob>>
       ELSE /\ recordingState' = "processing"
            /\ error' = NoMessage
            /\ blob' = [blob EXCEPT ![k] = audioChunksRef]
            /\ audioChunksRef' = <<>>
            /\ reader' = [reader EXCEPT ![k] = "reading"]
    /\ UNCHANGED <<nvars, analysisResult, analyserData, mediaRecorderRef,
                   audioContextRef, analyserRef, sourceRef, streamRef,
                   animationFrameIdRef, starts, gum, trackLive, context, frames,
                   request>>

\* lines 113-118: the catch block of onloadend
AnalysisCatch(e) ==
    Message(AnalysisFailedPrefix
                \o (IF e.isError THEN e.message ELSE UnknownAnalysisMessage))

\* lines 107-110: onloadend of reader k after a successful read; analyzeAudio
\* is called and sends its request (lines 29-46)
ReaderLoaded(k) ==
    /\ reader[k] = "reading"
    /\ reader' = [reader EXCEPT ![k] = "done"]
    /\ request' = [request EXCEPT ![k] =
                       [state |-> "pending",
                        base64Len |-> Base64Len(SumSizes(blob[k])),
                        chunks |-> blob[k]]]
    /\ UNCHANGED <<nvars, recordingState, analysisResult, error, analyserData,
                   mediaRecorderRef, audioChunksRef, audioContextRef,
                   analyserRef, sourceRef, streamRef, animationFrameIdRef,
                   starts, gum, recorder, trackLive, context, frames, blob>>

\* lines 107-109 and 113-118: onloadend of reader k after a failed read;
\* reader.result is null and the read of split throws
ReaderFailed(k) ==
    /\ reader[k] = "reading"
    /\ reader' = [reader EXCEPT ![k] = "failed"]
    /\ error' = AnalysisCatch(Thrown(TRUE, ReaderNullMessage))
    /\ recordingState' = "error"
    /\ UNCHANGED <<nvars, analysisResult, analyserData, mediaRecorderRef,
                   audioChunksRef, audioContextRef, analyserRef, sourceRef,
                   streamRef, animationFrameIdRef, starts, gum, recorder,
                   trackLive, context, frames, blob, request>>

\* lines 110-118: the call of analyzeAudio of reader k settles with out
AnalysisSettled(k, out) ==
    /\ request[k].state = "pending"
    /\ request' = [request EXCEPT ![k].state = "settled"]
    /\ IF out.kind = "return"
       THEN /\ analysisResult' = out.result
            /\ recordingState' = "result"
            /\ error' = error
       ELSE /\ error' = AnalysisCatch(Thrown(TRUE, out.message))
            /\ recordingState' = "error"
            /\ analysisResult' = analysisResult
    /\ UNCHANGED <<nvars, analyserData, mediaRecorderRef, audioChunksRef,
                   audioContextRef, analyserRef, sourceRef, streamRef,
                   animationFrameIdRef, starts, gum, recorder, trackLive,
                   context, frames, reader, blob>>

\* lines 86-91: a click on Try Again
ClickReset ==
    /\ ResetButton
    /\ recordingState' = "idle"
    /\ analysisResult' = JNull
    /\ error' = NoMessage
    /\ audioChunksRef' = <<>>
    /\ UNCHANGED <<nvars, analyserData, mediaRecorderRef, audioContextRef,
                   analyserRef, sourceRef, streamRef, animationFrameIdRef,
                   starts, gum, recorder, trackLive, context, frames, reader,
                   blob, request>>

\* lines 149-154: the animation frame of draw closure k runs
AnimationFrame(k) ==
    /\ k \in frames
    /\ IF analyserRef = 0
       THEN /\ frames' = frames \ {k}
            /\ animationFrameIdRef' =
                   IF animationFrameIdRef.loop = k
                   THEN [animationFrameIdRef EXCEPT !.live = FALSE]
                   ELSE animationFrameIdRef
            /\ analyserData' = analyserData
       ELSE /\ frames' = frames
            /\ animationFrameIdRef' = [loop |-> k, live |-> TRUE]
            /\ analyserData' = TRUE
    /\ UNCHANGED <<nvars, recordingState, analysisResult, error,
                   mediaRecorderRef, audioChunksRef, audioContextRef,
                   analyserRef, sourceRef, streamRef, starts, gum, recorder,
                   trackLive, context, reader, blob, request>>

Init == NIdle /\ UInit

Next ==
    \/ ClickStart
    \/ \E k \in Ids : StartResolved(k)
    \/ \E k \in Ids : StartVisualizerThrows(k)
    \/ \E k \in Ids : StartRejected(k)
    \/ ClickStop
    \/ \E k \in Ids, size \in 0..MaxChunkBytes : DataAvailable(k, size)
    \/ \E k \in Ids : StopEvent(k)
    \/ \E k \in Ids : ReaderLoaded(k)
    \/ \E k \in Ids : ReaderFailed(k)
    \/ \E k \in Ids, out \in UiOutcomes : AnalysisSettled(k, out)
    \/ ClickReset
    \/ \E k \in Ids : AnimationFrame(k)

Spec == Init /\ [][Next]_vars

\* lines 106-107 and 110: a FileReader that was told to read fires loadend,
\* with the data or after a failure, and the provider's promise settles
Fairness ==
    \A k \in Ids :
        /\ WF_vars(ReaderLoaded(k) \/ ReaderFailed(k))
        /\ WF_vars(\E out \in UiOutcomes : AnalysisSettled(k, out))

SpecLive == Init /\ [][Next]_vars /\ Fairness

(***************************************************************************)
(* Properties of analyzeAudio (specification SpecNorm).                    *)
(***************************************************************************)
\* the call of analyzeAudio has ended, and it got a text from the provider
NDone == nPc \in {"returned", "thrown"} /\ nParsed.done

\* the payload matches the schema {language:{name,confidence}, accent:{...}}
SchemaValid(p) == p.top = "object" /\ p.lang = "ok" /\ p.acc = "ok"

\* the payload has the types that lines 58-61 ask for: a name may be the
\* empty string
TypeValid(p) ==
    /\ p.top = "object"
    /\ p.lang \in {"ok", "nameEmpty"}
    /\ p.acc \in {"ok", "nameEmpty"}

\* bare, or between fences of three backticks, tagged or not
BareOrFenced(w) == w.ticks = 0 \/ (w.ticks = 3 /\ w.closed)

\* the confidence of field k of a returned result
ConfidenceOf(out, k) == Prop(Prop(out.result, k), K_confidence)

\* the name of field k of a returned result
NameOf(out, k) == Prop(Prop(out.result, k), K_name)

\* what the clamping of c into [0,100] is to give
Clamped(c) == IF c < 0 THEN 0 ELSE IF c > 100 THEN 100 ELSE c

\* the outcome of the validation's throw (line 62) after the catch block
InvalidShapeOutcome == Threw("API call failed: " \o InvalidStructureMessage)

\* the outcome of the throw of JSON.parse (line 55) after the catch block
MalformedOutcome == Threw("API call failed: " \o SyntaxErrorMessage)

\* C1: a schema-valid body gives the same AnalysisResult bare, between
\* fences without a tag and between fences with a tag, on one line or on
\* several: the outcome of the wrapped text is a returned result, and it is
\* the outcome of the body alone.
C1_FenceInvariance ==
    (NDone /\ SchemaValid(nIn.payload) /\ nIn.cut = 0 /\ BareOrFenced(nIn.wrap))
        => /\ nOut.kind = "return"
           /\ nOut = Normalize(RenderBody(nIn))
           /\ NameOf(nOut, K_language) = JStr(N_English)
           /\ NameOf(nOut, K_accent) = JStr(N_American)

\* C1, witness: a body on several lines between fences tagged json, returned
C1_Witness ==
    /\ nPc = "returned"
    /\ SchemaValid(nIn.payload)
    /\ nIn.cut = 0
    /\ nIn.layout = "pretty"
    /\ nIn.wrap.ticks = 3 /\ nIn.wrap.tagged /\ nIn.wrap.closed
    /\ nOut.kind = "return"

\* C2: for a valid payload each output confidence is the input confidence
\* clamped to [0,100] (below 0 gives 0, above 100 gives 100, in range as it
\* is), and the call returns: a confidence out of range is no error.
C2_Clamped ==
    (NDone /\ SchemaValid(nIn.payload) /\ nIn.cut = 0 /\ BareOrFenced(nIn.wrap))
        => /\ nOut.kind = "return"
           /\ ConfidenceOf(nOut, K_language) = JNum(Clamped(nIn.payload.lc))
           /\ ConfidenceOf(nOut, K_accent) = JNum(Clamped(nIn.payload.ac))

\* C2, witness: a returned result whose language confidence was below 0 and
\* whose accent confidence was above 100
C2_Witness ==
    /\ nPc = "returned"
    /\ SchemaValid(nIn.payload)
    /\ nIn.payload.lc < 0
    /\ nIn.payload.ac > 100
    /\ ConfidenceOf(nOut, K_language) = JNum(0)
    /\ ConfidenceOf(nOut, K_accent) = JNum(100)

\* C3: a parsed payload whose top-level value is no object, or whose
\* language or accent is missing or no object, or with a name that is no
\* string or a confidence that is no number, fails with InvalidShape (the
\* throw of line 62) and returns no AnalysisResult.
C3_InvalidShape ==
    (NDone /\ nParsed.ok /\ ~TypeValid(nIn.payload))
        => nOut = InvalidShapeOutcome

\* C4 as amended: a text that is no JSON after the de-fencing makes
\* analyzeAudio throw the Error "API call failed: " followed by the parser's
\* message, return no AnalysisResult, and differ from the InvalidShape
\* outcome; a truncated object is such a text.
C4_MalformedThrows ==
    /\ (NDone /\ ~nParsed.ok)
          => /\ nOut = MalformedOutcome
             /\ nOut.kind = "throw"
             /\ nOut.result = JNull
             /\ nOut # InvalidShapeOutcome
    /\ (NDone /\ nIn.payload.top = "object" /\ nIn.cut > 0)
          => (~nParsed.ok /\ nOut = MalformedOutcome)

\* C4, witness: a truncated object between fences, thrown by JSON.parse
C4_Witness ==
    /\ nPc = "thrown"
    /\ nIn.payload.top = "object"
    /\ nIn.cut > 0
    /\ nIn.wrap.ticks = 3 /\ nIn.wrap.closed
    /\ nParsed.done /\ ~nParsed.ok
    /\ nOut = MalformedOutcome

\* C4 as stated: a text that is no JSON after the de-fencing fails with an
\* outcome distinct from InvalidShape and from every provider failure.
C4_DistinctOutcome ==
    (NDone /\ ~nParsed.ok)
        => /\ nOut.kind = "throw"
           /\ nOut # InvalidShapeOutcome
           /\ \A e \in ProviderRejections : nOut # RejectedOutcome(e)

\* lines 48-53 have run on the provider's text
DeFenced == nPc = "defenced" \/ nParsed.done

\* the text has no surrounding fence: fenceRegex does not match it, trimmed
Unfenced(text) == ~FenceMatch(Trim(text)).matched

\* no white space at either end
NoOuterSpace(s) ==
    s = <<>> \/ (s[1] \notin SpaceChars /\ s[Len(s)] \notin SpaceChars)

\* t is s less white space at its two ends
IsTrimOf(t, s) ==
    /\ NoOuterSpace(t)
    /\ \E a \in 0..Len(s), b \in 0..Len(s) :
           /\ a + Len(t) + b = Len(s)
           /\ \A j \in 1..a : s[j] \in SpaceChars
           /\ \A j \in 1..Len(t) : s[a + j] = t[j]
           /\ \A j \in 1..b : s[a + Len(t) + j] \in SpaceChars

\* C12: on a text with no surrounding fence the de-fencing gives the text
\* trimmed, and the de-fencing of that result gives it again.
C12_Idempotent ==
    (DeFenced /\ Unfenced(nText))
        => /\ IsTrimOf(nJsonStr, nText)
           /\ DeFence(nJsonStr) = nJsonStr

\* C12, witness: a text that opens with a tagged fence and has no closing
\* fence, de-fenced to itself less the line feed at its end
C12_Witness ==
    /\ nPc = "defenced"
    /\ nIn.wrap.ticks = 3 /\ ~nIn.wrap.closed
    /\ Unfenced(nText)
    /\ Len(nJsonStr) = Len(nText) - 1
    /\ nJsonStr[1] = BT

\* the two fields of an AnalysisResult
FieldKeys == {K_language, K_accent}

\* C17: in every result that analyzeAudio returns, the confidence of each
\* field is an integer from 0 to 100 and the name of each field is a string
\* that is not empty.
C17_ResultInvariant ==
    nPc = "returned"
        => \A k \in FieldKeys :
               /\ ConfidenceOf(nOut, k).t = "number"
               /\ ConfidenceOf(nOut, k).v \in 0..100
               /\ NameOf(nOut, k).t = "string"
               /\ NameOf(nOut, k).v # <<>>

\* the body is between an opening fence line of three or more backticks,
\* with or without a tag, and a closing fence line of as many
FenceLines(w) ==
    /\ w.ticks >= 3 /\ w.closed
    /\ w.open # <<>> /\ w.open[Len(w.open)] = NL
    /\ w.close # <<>> /\ w.close[1] = NL

\* C18: a text between fence lines of three or more backticks is de-fenced
\* to exactly its body, trimmed; so a schema-valid body between fence lines,
\* of four backticks too, gives the outcome of the body alone, a returned
\* result.
C18_LongFence ==
    /\ (DeFenced /\ FenceLines(nIn.wrap))
           => nJsonStr = Trim(RenderBody(nIn))
    /\ (NDone /\ FenceLines(nIn.wrap) /\ SchemaValid(nIn.payload) /\ nIn.cut = 0)
           => /\ nOut.kind = "return"
              /\ nOut = Normalize(RenderBody(nIn))

(***************************************************************************)
(* Properties of the App component (specification Spec).                   *)
(***************************************************************************)
\* the recorders that are recording
Recording == {k \in Ids : recorder[k] = "recording"}

\* the calls of analyzeAudio whose provider request is outstanding
Outstanding == {k \in Ids : request[k].state = "pending"}

\* the outcomes of analyzeAudio that are a throw
Failures == {out \in UiOutcomes : out.kind = "throw"}

\* C5: when a recording stops with zero audio bytes captured (no chunk at
\* all, or chunks of zero bytes in total), the session moves to error with
\* the no-audio message, and no FileReader and no provider call is started
\* for that recording.
C5_EmptyRecording ==
    [][\A k \in Ids :
          (StopEvent(k) /\ SumSizes(audioChunksRef) = 0)
              => /\ recordingState' = "error"
                 /\ error' = Message(NoAudioMessage)
                 /\ reader'[k] = "none"
                 /\ request'[k].state = "none"]_vars

\* the transitions of the state machine of the specification
AllowedTransitions ==
    {<<"idle", "recording">>, <<"recording", "processing">>,
     <<"recording", "error">>, <<"processing", "result">>,
     <<"processing", "error">>, <<"result", "idle">>, <<"error", "idle">>}

\* C6: recordingState changes only along idle->recording,
\* recording->processing, recording->error, processing->result,
\* processing->error, result->idle and error->idle.
C6_Transitions ==
    [][recordingState' # recordingState
           => <<recordingState, recordingState'>> \in AllowedTransitions]_vars

\* C7: at most one MediaRecorder is recording and at most one analyzeAudio
\* request is outstanding, and the start button is not offered while a
\* recording is active, being acquired or being processed.
C7_SingleFlow ==
    /\ Cardinality(Recording) <= 1
    /\ Cardinality(Outstanding) <= 1
    /\ StartButton =>
           \A k \in Ids : /\ gum[k] # "pending"
                          /\ recorder[k] \notin {"recording", "stopping", "flushed"}
                          /\ reader[k] # "reading"
                          /\ request[k].state # "pending"

\* C8: every failure on the analysis path (a throw of analyzeAudio, a failed
\* read of the blob) is caught and leaves the session in error, with a
\* message that carries the message of the failure, and with analysisResult
\* null.
C8_FailureHandled ==
    [][\A k \in Ids :
          /\ \A out \in Failures :
                 AnalysisSettled(k, out)
                     => /\ recordingState' = "error"
                        /\ error' = Message(AnalysisFailedPrefix \o out.message)
                        /\ analysisResult' = JNull
          /\ ReaderFailed(k)
                 => /\ recordingState' = "error"
                    /\ error' = Message(AnalysisFailedPrefix \o ReaderNullMessage)
                    /\ analysisResult' = JNull]_vars

\* C9: nothing is retried: a call of analyzeAudio sends one request, a
\* stopped recording leads to at most one call, and once the session is in
\* error a step either is the user's reset or leaves the session (its state,
\* its result, its message, its recorders, readers and requests) as it is.
C9_NoRetry ==
    [][/\ \A k \in Ids :
              request'[k] # request[k]
                  => \/ ReaderLoaded(k) /\ request[k].state = "none"
                     \/ request[k].state = "pending" /\ request'[k].state = "settled"
       /\ recordingState = "error"
              => \/ ClickReset
                 \/ UNCHANGED <<recordingState, analysisResult, error, recorder,
                                reader, request, gum>>]_vars

\* C10: right after stopRecording acted on an active recorder, no animation
\* frame of the visualizer is scheduled, or the frames that run do not
\* schedule another (analyserRef is null); every stream acquired by
\* startRecording has its tracks stopped; and the stopped recorder is still
\* to deliver its events, which lead to the analysis.
C10_StopReleases ==
    [][(ClickStop /\ StopGuard)
           => /\ frames' = {} \/ analyserRef' = 0
              /\ \A k \in Ids : ~trackLive'[k]
              /\ recorder'[mediaRecorderRef] = "stopping"]_vars

\* C11: a denied microphone (getUserMedia rejects) puts the session in error
\* with the microphone-access message, starts no recorder and makes no
\* provider call; the reset after it gives idle, where the start button is
\* offered again; and the microphone-access message appears only by a step
\* in which getUserMedia rejected.
C11_MicrophoneDenied ==
    [][/\ \A k \in Ids :
              StartRejected(k)
                  => /\ recordingState' = "error"
                     /\ error' = Message(MicrophoneDeniedMessage)
                     /\ recorder' = recorder
                     /\ reader' = reader
                     /\ request' = request
       /\ (ClickReset /\ error = Message(MicrophoneDeniedMessage))
              => /\ recordingState' = "idle"
                 /\ error' = NoMessage
                 /\ StartButton'
       /\ (error' = Message(MicrophoneDeniedMessage) /\ error' # error)
              => \E k \in Ids : gum[k] = "pending" /\ gum'[k] = "rejected"]_vars

\* the analyses in flight: a FileReader is reading a recording's audio, or
\* the provider's request for it is outstanding
InFlight == {k \in Ids : reader[k] = "reading" \/ request[k].state = "pending"}

\* C13: with the readers and the provider's promises completing, a session
\* in processing reaches result or error, and the session is not in idle
\* while an analysis is in flight.
C13_ProcessingCompletes ==
    /\ (recordingState = "processing") ~> (recordingState \in {"result", "error"})
    /\ [](recordingState = "idle" => InFlight = {})

\* C14: while a request of analyzeAudio is outstanding, no start, stop or
\* reset button is rendered, no step changes the chunk buffer, and
\* recordingState, analysisResult and error change only by the settling of
\* an outstanding request.
C14_PendingFrame ==
    [][Outstanding # {}
           => /\ ~StartButton /\ ~StopButton /\ ~ResetButton
              /\ audioChunksRef' = audioChunksRef
              /\ <<recordingState, analysisResult, error>>'
                      # <<recordingState, analysisResult, error>>
                     => \E k \in Outstanding, out \in UiOutcomes :
                            AnalysisSettled(k, out)]_vars

\* C15: in result analysisResult is not null; in idle, recording, processing
\* and error it is null, and a reset makes it null; in error the message is
\* not null; and analysisResult gets a value only from null, by the settling
\* of an outstanding request with a returned result, which is that value.
C15_ResultState ==
    /\ [](/\ recordingState = "result" => analysisResult # JNull
          /\ recordingState \in {"idle", "recording", "processing", "error"}
                 => analysisResult = JNull
          /\ recordingState = "error" => error.set)
    /\ [][/\ ClickReset => analysisResult' = JNull
          /\ (analysisResult' # analysisResult /\ analysisResult' # JNull)
                 => /\ analysisResult = JNull
                    /\ \E k \in Outstanding, out \in UiOutcomes :
                           /\ out.kind = "return"
                           /\ AnalysisSettled(k, out)
                           /\ analysisResult' = out.result]_vars

\* every chunk of the sequence was emitted by recorder k
ChunksOf(chunks, k) == \A i \in 1..Len(chunks) : chunks[i].rec = k

\* C16: the chunk buffer is empty in idle, processing, result and error; the
\* stop event of a recorder leaves it empty, handing what it held to the
\* FileReader, and what it held are chunks of that recorder only; and the
\* payload of the request is those chunks, in their order.
C16_ChunkBuffer ==
    /\ [](recordingState \in {"idle", "processing", "result", "error"}
              => audioChunksRef = <<>>)
    /\ [][\A k \in Ids :
              /\ StopEvent(k)
                     => /\ audioChunksRef' = <<>>
                        /\ ChunksOf(audioChunksRef, k)
                        /\ audioChunksRef # <<>> => blob'[k] = audioChunksRef
              /\ ReaderLoaded(k)
                     => /\ request'[k].chunks = blob[k]
                        /\ ChunksOf(blob[k], k)]_vars

\* C19: in idle, processing, result and error no MediaRecorder is recording
\* and no track of a stream that startRecording acquired is live.
C19_NoLeak ==
    recordingState \in {"idle", "processing", "result", "error"}
        => \A k \in Ids : recorder[k] # "recording" /\ ~trackLive[k]

====
